---- MODULE Spec2Model ----
(***************************************************************************)
(* State-machine model of platform/linux-dpdk/odp_system_info.c:           *)
(* system-info initialisation and termination, the huge-page mount         *)
(* directory scan (get_hugepage_dir) and the huge-page size enumeration    *)
(* (odp_sys_huge_page_size_all).                                           *)
(*                                                                         *)
(* C strings are TLA+ strings; the character at a position past the end is *)
(* "" (the terminating NUL).  A pointer that may be NULL is a sequence of  *)
(* length at most one: << >> is NULL, <<s>> points to s.                   *)
(***************************************************************************)
EXTENDS Integers, Sequences, FiniteSets, TLC

VARIABLES env, system_info, hugepage_info, default_size, heap, size, ret

vars == <<env, system_info, hugepage_info, default_size, heap, size, ret>>

(***************************************************************************)
(* Bounds of the model.                                                    *)
(***************************************************************************)
MaxMountLines == 2
MaxAllocs == 2
MaxFrees == 2
MaxDirEntries == 3
MaxNum == 2
\* CONFIG_NUM_CPU_IDS, the number of CPU ids the build keeps, scaled down
CONFIG_NUM_CPU_IDS == 2

(***************************************************************************)
(* Program constants.                                                      *)
(***************************************************************************)
ODP_CACHE_LINE_SIZE == 64
ODP_PAGE_SIZE == 4096
_FIELDNAME_MAX == 4

(***************************************************************************)
(* uint64_t.  The model checker's integers are 32 bits wide, so a 64-bit   *)
(* unsigned value is kept as four 16-bit limbs, least significant first,   *)
(* and the arithmetic the source performs on such values is done limb by   *)
(* limb, modulo 2^64.                                                      *)
(***************************************************************************)
Limb == 65536

\* the uint64_t with value n, for 0 <= n < 2^31
U64(n) == <<n % Limb, n \div Limb, 0, 0>>

U64Zero == U64(0)

\* carry propagation over four limb sums, least significant first: the
\* value modulo 2^64 and whether a carry (or borrow) left the top limb
Carry4(l1, l2, l3, x4) ==
    [val |-> <<l1, l2, l3, x4 % Limb>>, overflow |-> x4 \div Limb # 0]
Carry3(l1, l2, x3, x4) == Carry4(l1, l2, x3 % Limb, x4 + (x3 \div Limb))
Carry2(l1, x2, x3, x4) == Carry3(l1, x2 % Limb, x3 + (x2 \div Limb), x4)
Carry(x1, x2, x3, x4) == Carry2(x1 % Limb, x2 + (x1 \div Limb), x3, x4)

\* a * m for a small multiplier m (m <= 2^14): the product modulo 2^64 and
\* whether it overflowed 64 bits
U64MulSmall(a, m) == Carry(a[1] * m, a[2] * m, a[3] * m, a[4] * m)

\* a + d for a small addend d
U64AddSmall(a, d) == Carry(a[1] + d, a[2], a[3], a[4])

\* (a - b) modulo 2^64
U64Sub(a, b) == Carry(a[1] - b[1], a[2] - b[2], a[3] - b[3], a[4] - b[4]).val

\* a < b as unsigned 64-bit values
U64Less(a, b) ==
    \E k \in 1..4 : a[k] < b[k] /\ \A j \in (k + 1)..4 : a[j] = b[j]

\* conversion of a uint64_t to int: the low 32 bits, two's complement
U64ToInt(a) ==
    IF a[2] >= Limb \div 2 THEN (a[2] - Limb) * Limb + a[1]
    ELSE a[2] * Limb + a[1]

\* (uint64_t)sz * 1024
Times1024(a) == U64MulSmall(a, 1024).val

NULL == << >>
Ptr(s) == <<s>>

Min(a, b) == IF a < b THEN a ELSE b

(***************************************************************************)
(* libc / DPDK string primitives used by the source.                       *)
(***************************************************************************)
CharAt(s, i) == IF i >= 1 /\ i <= Len(s) THEN SubSeq(s, i, i) ELSE ""

Suffix(s, i) == SubSeq(s, i, Len(s))

\* the characters i..j of s that exist
Sub(s, i, j) == SubSeq(s, i, Min(j, Len(s)))

isspace(c) == c \in {" ", "\t", "\n", "\r", "\f"}

RECURSIVE SkipSpace(_, _)
SkipSpace(s, i) == IF isspace(CharAt(s, i)) THEN SkipSpace(s, i + 1) ELSE i

Digits == "0123456789abcdef"
UpperDigits == "0123456789ABCDEF"

\* value of a digit character, 99 when the character is no digit
DigitVal(c) ==
    IF Len(c) # 1 THEN 99
    ELSE IF \E k \in 1..16 : SubSeq(Digits, k, k) = c
         THEN (CHOOSE k \in 1..16 : SubSeq(Digits, k, k) = c) - 1
    ELSE IF \E k \in 1..16 : SubSeq(UpperDigits, k, k) = c
         THEN (CHOOSE k \in 1..16 : SubSeq(UpperDigits, k, k) = c) - 1
    ELSE 99

\* one more digit of value d: acc * base + d, and whether that left the
\* range of 64 bits
PushDigit(m, d) ==
    [val |-> U64AddSmall(m.val, d).val,
     overflow |-> m.overflow \/ U64AddSmall(m.val, d).overflow]

\* consume digits of the base from position i, at most width characters:
\* the value, the index of the first character not consumed, the number of
\* digits and whether the value left the range of 64 bits
RECURSIVE ScanDigits(_, _, _, _, _, _, _)
ScanDigits(s, i, base, width, acc, n, range) ==
    IF width > 0 /\ DigitVal(CharAt(s, i)) < base
    THEN ScanDigits(s, i + 1, base, width - 1,
                    PushDigit(U64MulSmall(acc, base), DigitVal(CharAt(s, i))).val,
                    n + 1,
                    range \/ PushDigit(U64MulSmall(acc, base),
                                       DigitVal(CharAt(s, i))).overflow)
    ELSE [val |-> acc, end |-> i, ndigits |-> n, range |-> range]

\* the result of strtoull from the digits scanned and the sign
StrToULLResult(d, neg) ==
    IF d.ndigits = 0
    THEN [val |-> U64Zero, end |-> 1, errno |-> FALSE, converted |-> FALSE]
    ELSE [val |-> IF d.range THEN <<Limb - 1, Limb - 1, Limb - 1, Limb - 1>>
                  ELSE IF neg THEN U64Sub(U64Zero, d.val)
                  ELSE d.val,
          end |-> d.end, errno |-> d.range, converted |-> TRUE]

\* whether a 0x prefix starts at index i (base 0 or 16 only)
HexPrefix(s, base, width, i) ==
    /\ base \in {0, 16}
    /\ width >= 3
    /\ CharAt(s, i) = "0"
    /\ CharAt(s, i + 1) \in {"x", "X"}
    /\ DigitVal(CharAt(s, i + 2)) < 16

\* strtoull behind the sign: the base is 16, 8 or 10 by prefix when base is 0
StrToULLDigits(s, base, width, i, neg, hex) ==
    StrToULLResult(
        ScanDigits(s, IF hex THEN i + 2 ELSE i,
                   IF hex THEN 16
                   ELSE IF base # 0 THEN base
                   ELSE IF CharAt(s, i) = "0" THEN 8 ELSE 10,
                   IF hex THEN width - 2 ELSE width,
                   U64Zero, 0, FALSE),
        neg)

\* strtoull behind the leading white space, which ends at index i
StrToULLSign(s, base, width, i, signed) ==
    StrToULLDigits(s, base,
                   IF signed THEN width - 1 ELSE width,
                   IF signed THEN i + 1 ELSE i,
                   signed /\ CharAt(s, i) = "-",
                   HexPrefix(s, base, IF signed THEN width - 1 ELSE width,
                             IF signed THEN i + 1 ELSE i))

StrToULLAt(s, base, width, i) ==
    StrToULLSign(s, base, width, i, width > 0 /\ CharAt(s, i) \in {"+", "-"})

\* strtoull(s, &endptr, base) restricted to width characters after the
\* leading white space (width is unbounded for strtoull itself, the field
\* width for a scanf conversion).  Result: the value, the index endptr
\* points to, whether errno was set and whether any digit was converted.
StrToULL(s, base, width) == StrToULLAt(s, base, width, SkipSpace(s, 1))

Unbounded == 1000

RECURSIVE Shl10(_, _)
Shl10(x, n) == IF n = 0 THEN x ELSE Shl10(Times1024(x), n - 1)

\* the switch (*endptr) of rte_str_to_size: the number of times size is
\* multiplied by 1024
SizeShifts(c) ==
    IF c \in {"G", "g"} THEN 3
    ELSE IF c \in {"M", "m"} THEN 2
    ELSE IF c \in {"K", "k"} THEN 1
    ELSE 0

SizeScale(s, r) ==
    IF CharAt(s, 1) = "-" THEN U64Zero
    ELSE IF r.errno THEN U64Zero
    ELSE Shl10(r.val,
               SizeShifts(CharAt(s, IF CharAt(s, r.end) = " " THEN r.end + 1
                                    ELSE r.end)))

SizeOf(s) == SizeScale(s, StrToULL(s, 0, Unbounded))

\* rte_str_to_size (rte_common.h): a number with an optional K/M/G suffix
rte_str_to_size(str) == SizeOf(Suffix(str, SkipSpace(str, 1)))

\* strncmp(a, b, n) == 0
strncmp_eq(a, b, n) == SubSeq(a, 1, Min(Len(a), n)) = SubSeq(b, 1, Min(Len(b), n))

\* strstr(hay, needle): index of the first occurrence, 0 for NULL
Least(hits) == IF hits = {} THEN 0 ELSE CHOOSE i \in hits : \A j \in hits : i <= j
strstr(hay, needle) ==
    Least({i \in 1..Len(hay) : Sub(hay, i, i + Len(needle) - 1) = needle})

\* the loop of rte_strsplit: token start indices and the positions
\* overwritten with NUL
RECURSIVE StrsplitLoop(_, _, _, _, _, _, _)
StrsplitLoop(str, i, starts, tokstart, nuls, maxtokens, delim) ==
    IF i > Len(str) \/ Len(starts) >= maxtokens
    THEN [starts |-> starts, nuls |-> nuls]
    ELSE StrsplitLoop(str, i + 1,
                      IF tokstart THEN Append(starts, i) ELSE starts,
                      CharAt(str, i) = delim,
                      IF CharAt(str, i) = delim THEN nuls \cup {i} ELSE nuls,
                      maxtokens, delim)

\* the index of the first NUL at or behind index start
FirstNul(str, stops) ==
    IF stops = {} THEN Len(str) + 1
    ELSE CHOOSE p \in stops : \A q \in stops : p <= q

\* the C string that starts at index start of a buffer with NULs written
CStrAt(str, nuls, start) ==
    SubSeq(str, start, FirstNul(str, {p \in nuls : p >= start}) - 1)

Tokens(str, r) ==
    [k \in 1..Len(r.starts) |-> CStrAt(str, r.nuls, r.starts[k])]

\* rte_strsplit(buf, sizeof(buf), tokens, maxtokens, delim): the tokens
\* (the return value is their number)
rte_strsplit(str, maxtokens, delim) ==
    Tokens(str, StrsplitLoop(str, 1, << >>, TRUE, {}, maxtokens, delim))

ScanResult(r) ==
    IF r.converted THEN [n |-> 1, sz |-> r.val] ELSE [n |-> 0, sz |-> U64Zero]

\* sscanf(str, "<literal>%8lu...", &sz): the literal must match, then an
\* unsigned decimal of at most 8 characters is converted; the return value
\* is 1 as soon as the number is converted, whatever follows it
sscanf_lu8(str, literal) ==
    IF Sub(str, 1, Len(literal)) # literal
    THEN [n |-> 0, sz |-> U64Zero]
    ELSE ScanResult(StrToULL(Suffix(str, Len(literal) + 1), 10, 8))

(***************************************************************************)
(* The files the program reads.  A file that cannot be opened is NoFile; a *)
(* readable text file is the sequence of its lines, as fgets returns them. *)
(***************************************************************************)
NoFile == [exists |-> FALSE, lines |-> << >>]
File(ls) == [exists |-> TRUE, lines |-> ls]

\* /proc/meminfo
MeminfoFiles ==
    { NoFile,
      File(<<"MemTotal:       16384 kB\n">>),
      File(<<"MemTotal:       16384 kB\n", "Hugepagesize:       2048 kB\n">>) }

\* lines of /proc/mounts
MountLines ==
    { "none /mnt/huge hugetlbfs rw,pagesize=2M 0 0\n",
      "hugetlbfs /dev/hugepages hugetlbfs rw,relatime 0 0\n",
      "nodev /mnt/huge1G hugetlbfs rw,relatime,pagesize=1024M 0 0\n",
      "proc /proc proc rw,nosuid 0 0\n",
      "tmpfs /run\n" }

MountTables ==
    {NoFile} \cup
    {File(ls) : ls \in UNION {[1..n -> MountLines] : n \in 0..MaxMountLines}}

\* sizeof(const char *) on the build
PtrSizes == {4, 8}

\* the two keys read_config_file looks up: << >> for a key that is not
\* found, <<val>> for its value in MHz
ConfigKeys == {"system.cpu_mhz", "system.cpu_mhz_max"}
GoodConfig == [k \in ConfigKeys |-> <<1400>>]
Configs ==
    { GoodConfig,
      [GoodConfig EXCEPT !["system.cpu_mhz"] = << >>],
      [GoodConfig EXCEPT !["system.cpu_mhz_max"] = << >>] }

\* odp_global_ro.num_cpus_installed, an int
CpuCounts == {-1, 0, 2}

\* get_nprocs_conf()
NprocsConf == {CONFIG_NUM_CPU_IDS, CONFIG_NUM_CPU_IDS + 1}

\* CACHE_LNSZ_FILE
CacheFiles ==
    { File(<<"64\n">>), NoFile, File(<< >>), File(<<"128\n">>),
      File(<<"unknown\n">>) }

CpuIds == 0..(CONFIG_NUM_CPU_IDS - 1)

\* /sys/devices/system/cpu/cpu<id>/cpufreq/cpuinfo_max_freq, in kHz
CpufreqFileSet == {NoFile, File(<<"1200000\n">>)}
CpufreqFiles == [CpuIds -> CpufreqFileSet]

\* /proc/cpuinfo, with the maximum frequency its model name line gives
\* (zero for none)
CpuinfoFiles ==
    { [exists |-> FALSE, hz |-> U64Zero],
      [exists |-> TRUE, hz |-> U64Zero],
      [exists |-> TRUE, hz |-> U64(1400000000)] }

\* names of the entries of /sys/kernel/mm/hugepages, in readdir order
DirEntryNames ==
    { ".", "hugepages-2048kB", "hugepages-16384kB", "hugepages-1048576kB",
      "hugepages-16777216kB" }

Distinct(seq) ==
    \A i, j \in 1..Len(seq) : i # j => seq[i] # seq[j]

HugepagesDirs ==
    {NoFile} \cup
    {File(ls) : ls \in {q \in UNION {[1..n -> DirEntryNames] :
                                      n \in 0..MaxDirEntries} : Distinct(q)}}

\* a system on which initialisation succeeds
BaseEnv ==
    [ ptr_size |-> 8,
      config |-> GoodConfig,
      nprocs_conf |-> CONFIG_NUM_CPU_IDS,
      cpufreq |-> [i \in CpuIds |-> NoFile],
      cpuinfo |-> [exists |-> FALSE, hz |-> U64Zero],
      num_cpus_installed |-> 2,
      arch_sysfs |-> TRUE,
      cache_file |-> File(<<"64\n">>),
      meminfo |-> NoFile,
      mounts |-> NoFile,
      hugepages |-> NoFile ]

TwoMB == Times1024(U64(2048))
OneGB == Times1024(U64(1048576))

\* the sizes get_hugepage_dir is asked for
RequestedSizes == {U64Zero, TwoMB, OneGB}

(***************************************************************************)
(* Huge page information.                                                  *)
(***************************************************************************)
\* sscanf(str, "Hugepagesize:   %8lu kB", &sz), evaluated once for each
\* line of the model
MeminfoLineTable ==
    [l \in UNION {{f.lines[k] : k \in 1..Len(f.lines)} : f \in MeminfoFiles} |->
        sscanf_lu8(l, "Hugepagesize:")]

\* the while (fgets(...)) loop of default_huge_page_size, from line i on
RECURSIVE ScanMeminfo(_, _)
ScanMeminfo(lines, i) ==
    IF i > Len(lines) THEN U64Zero
    ELSE IF MeminfoLineTable[lines[i]].n = 1
    THEN Times1024(MeminfoLineTable[lines[i]].sz)
    ELSE ScanMeminfo(lines, i + 1)

\* default_huge_page_size() reading the given /proc/meminfo
ReadDefaultHugePageSize(meminfo) ==
    IF ~meminfo.exists THEN U64Zero ELSE ScanMeminfo(meminfo.lines, 1)

\* the same, evaluated once for each file of the model
MeminfoTable == [f \in MeminfoFiles |-> ReadDefaultHugePageSize(f)]

default_huge_page_size == MeminfoTable[env.meminfo]

\* enum proc_mount_fieldnames
DEVICE == 0
MOUNTPT == 1
FSTYPE == 2
OPTIONS == 3

hugetlbfs_str == "hugetlbfs"
pagesize_opt == "pagesize="

\* sizeof(hugetlbfs_str) - 1 and sizeof(pagesize_opt) - 1: both are declared
\* const char *, so sizeof is the size of a pointer on the build
htlbfs_str_len(ptr_size) == ptr_size - 1
pagesize_opt_len(ptr_size) == ptr_size - 1

\* what the body of the while (fgets(...)) loop computes from one line:
\* the tokens of rte_strsplit, whether the type is taken for hugetlbfs, the
\* index strstr finds the page-size option at (0 for NULL) and the size
\* rte_str_to_size reads behind it
MountLineOption(tokens, ptr_size, pagesz_str) ==
    [ tokens |-> tokens,
      hugetlbfs |-> /\ Len(tokens) = _FIELDNAME_MAX
                    /\ strncmp_eq(tokens[FSTYPE + 1], hugetlbfs_str,
                                  htlbfs_str_len(ptr_size)),
      pagesz_str |-> pagesz_str,
      pagesz |-> IF pagesz_str = 0 THEN U64Zero
                 ELSE rte_str_to_size(
                          Suffix(tokens[OPTIONS + 1],
                                 pagesz_str + pagesize_opt_len(ptr_size))) ]

MountLineTokens(tokens, ptr_size) ==
    MountLineOption(tokens, ptr_size,
                    IF Len(tokens) = _FIELDNAME_MAX
                    THEN strstr(tokens[OPTIONS + 1], pagesize_opt)
                    ELSE 0)

MountLine(line, ptr_size) ==
    MountLineTokens(rte_strsplit(line, _FIELDNAME_MAX, " "), ptr_size)

\* the same, evaluated once for each line of the model
MountLineTable ==
    [l \in MountLines |-> [p \in PtrSizes |-> MountLine(l, p)]]

\* one pass of the while (fgets(...)) loop of get_hugepage_dir on line i,
\* with ln what MountLine computes from it
RECURSIVE ScanMountsLine(_, _, _, _, _)
RECURSIVE ScanMounts(_, _, _, _)

\* ScanMountsLine with the scan going on behind a line that does not split
\* into four fields
ScanMountsLine_continue(lines, i, hugepage_sz, dsize, ln) ==
    IF Len(ln.tokens) # _FIELDNAME_MAX
    THEN ScanMounts(lines, i + 1, hugepage_sz, dsize)
    ELSE IF ln.hugetlbfs /\ ln.pagesz_str = 0 /\ hugepage_sz = dsize
    THEN Ptr(ln.tokens[MOUNTPT + 1])
    ELSE IF ln.hugetlbfs /\ ln.pagesz_str # 0 /\ ln.pagesz = hugepage_sz
    THEN Ptr(ln.tokens[MOUNTPT + 1])
    ELSE ScanMounts(lines, i + 1, hugepage_sz, dsize)

\* ScanMountsLine with a mount without page-size option taken for any size
ScanMountsLine_anysize(lines, i, hugepage_sz, dsize, ln) ==
    IF Len(ln.tokens) # _FIELDNAME_MAX THEN NULL
    ELSE IF ln.hugetlbfs /\ ln.pagesz_str = 0
    THEN Ptr(ln.tokens[MOUNTPT + 1])
    ELSE IF ln.hugetlbfs /\ ln.pagesz_str # 0 /\ ln.pagesz = hugepage_sz
    THEN Ptr(ln.tokens[MOUNTPT + 1])
    ELSE ScanMounts(lines, i + 1, hugepage_sz, dsize)

ScanMounts(lines, i, hugepage_sz, dsize) ==
    IF i > Len(lines) THEN NULL
    ELSE ScanMountsLine(lines, i, hugepage_sz, dsize,
                        MountLineTable[lines[i]][env.ptr_size])

ScanMountsLine(lines, i, hugepage_sz, dsize, ln) ==
    IF Len(ln.tokens) # _FIELDNAME_MAX THEN NULL
    ELSE IF ln.hugetlbfs /\ ln.pagesz_str = 0 /\ hugepage_sz = dsize
    THEN Ptr(ln.tokens[MOUNTPT + 1])
    ELSE IF ln.hugetlbfs /\ ln.pagesz_str # 0 /\ ln.pagesz = hugepage_sz
    THEN Ptr(ln.tokens[MOUNTPT + 1])
    ELSE ScanMounts(lines, i + 1, hugepage_sz, dsize)

\* get_hugepage_dir(hugepage_sz): the string it duplicates (NULL for none)
\* and the value it leaves in its static default_size
get_hugepage_dir(hugepage_sz) ==
    IF ~env.mounts.exists
    THEN [retval |-> NULL, default_size |-> default_size]
    ELSE LET dsize == IF default_size = U64Zero THEN default_huge_page_size
                      ELSE default_size
             sz == IF hugepage_sz = U64Zero THEN dsize ELSE hugepage_sz
         IN  [retval |-> ScanMounts(env.mounts.lines, 1, sz, dsize),
              default_size |-> dsize]

(***************************************************************************)
(* The heap: the strings strdup has returned, with the number of times     *)
(* each was passed to free.  A pointer is an index, 0 is the null pointer. *)
(***************************************************************************)
\* strdup(s) for a string that may be absent: the new heap and the pointer
strdup(h, s) ==
    IF s = NULL THEN [heap |-> h, ptr |-> 0]
    ELSE [heap |-> Append(h, [str |-> s[1], frees |-> 0]), ptr |-> Len(h) + 1]

\* free(p)
free(h, p) ==
    IF p = 0 THEN h ELSE [h EXCEPT ![p].frees = @ + 1]

(***************************************************************************)
(* CPU information.                                                        *)
(***************************************************************************)
ZeroSystemInfo ==
    [ page_size |-> U64Zero,
      default_cpu_hz |-> U64Zero,
      default_cpu_hz_max |-> U64Zero,
      cpu_hz_max |-> [i \in CpuIds |-> U64Zero],
      model_str |-> [i \in CpuIds |-> ""],
      cpu_count |-> 0,
      cache_line_size |-> 0 ]

ZeroHugepageInfo ==
    [ default_huge_page_size |-> U64Zero, default_huge_page_dir |-> 0 ]

sysconf_cpu_count == env.num_cpus_installed

\* sscanf(str, "%i", &size): the int converted, << >> when none is
ScanInt(r) == IF r.converted THEN <<U64ToInt(r.val)>> ELSE << >>
sscanf_i(str) == ScanInt(StrToULL(str, 0, Unbounded))

\* systemcpu_cache_line_size() on a build that reads CACHE_LNSZ_FILE
\* (arch_sysfs) or on one that returns the dummy value
ReadCacheLineSize(arch_sysfs, file) ==
    IF ~arch_sysfs THEN 64
    ELSE IF ~file.exists THEN 0
    ELSE IF Len(file.lines) = 0 THEN 0
    ELSE IF sscanf_i(file.lines[1]) = << >> THEN 0
    ELSE sscanf_i(file.lines[1])[1]

CacheLineTable ==
    [a \in BOOLEAN |-> [f \in CacheFiles |-> ReadCacheLineSize(a, f)]]

systemcpu_cache_line_size == CacheLineTable[env.arch_sysfs][env.cache_file]

\* (uint64_t)val * 1000000
MHzToHz(val) == U64MulSmall(U64MulSmall(U64(val), 1000).val, 1000).val

\* read_cpufreq(filename, id) reading the given file
ReadCpufreq(f) ==
    IF ~f.exists THEN U64Zero
    ELSE IF Len(f.lines) = 0 THEN U64Zero
    ELSE U64MulSmall(StrToULL(f.lines[1], 0, Unbounded).val, 1000).val

CpufreqTable == [f \in CpufreqFileSet |-> ReadCpufreq(f)]

\* read_cpufreq("cpuinfo_max_freq", id)
read_cpufreq(id) == CpufreqTable[env.cpufreq[id]]

\* systemcpu without the comparison with ODP_CACHE_LINE_SIZE
systemcpu_nocompare(si) ==
    LET count == sysconf_cpu_count
        si1 == [si EXCEPT !.cpu_count = count]
        lnsz == systemcpu_cache_line_size
        si2 == [si1 EXCEPT !.cache_line_size = lnsz]
    IN  IF count = 0 THEN [rc |-> -1, si |-> si]
        ELSE IF lnsz = 0 THEN [rc |-> -1, si |-> si1]
        ELSE [rc |-> 0, si |-> si2]

\* systemcpu(sysinfo): the return value and the fields as it leaves them
systemcpu(si) ==
    LET count == sysconf_cpu_count
        si1 == [si EXCEPT !.cpu_count = count]
        lnsz == systemcpu_cache_line_size
        si2 == [si1 EXCEPT !.cache_line_size = lnsz]
    IN  IF count = 0 THEN [rc |-> -1, si |-> si]
        ELSE IF lnsz = 0 THEN [rc |-> -1, si |-> si1]
        ELSE IF lnsz # ODP_CACHE_LINE_SIZE THEN [rc |-> -1, si |-> si2]
        ELSE [rc |-> 0, si |-> si2]

\* read_config_file with the second key optional
read_config_file_onekey(si) ==
    LET mhz == env.config["system.cpu_mhz"]
        mhz_max == env.config["system.cpu_mhz_max"]
        si1 == [si EXCEPT !.default_cpu_hz = MHzToHz(mhz[1])]
        si2 == [si1 EXCEPT !.default_cpu_hz_max = MHzToHz(mhz_max[1])]
    IN  IF mhz = << >> THEN [rc |-> -1, si |-> si]
        ELSE IF mhz_max = << >> THEN [rc |-> 0, si |-> si1]
        ELSE [rc |-> 0, si |-> si2]

\* read_config_file()
read_config_file(si) ==
    LET mhz == env.config["system.cpu_mhz"]
        mhz_max == env.config["system.cpu_mhz_max"]
        si1 == [si EXCEPT !.default_cpu_hz = MHzToHz(mhz[1])]
        si2 == [si1 EXCEPT !.default_cpu_hz_max = MHzToHz(mhz_max[1])]
    IN  IF mhz = << >> THEN [rc |-> -1, si |-> si]
        ELSE IF mhz_max = << >> THEN [rc |-> -1, si |-> si1]
        ELSE [rc |-> 0, si |-> si2]

\* the loop over the CPU ids that reads cpuinfo_max_freq
read_max_freqs(si) ==
    [si EXCEPT !.cpu_hz_max =
        [i \in CpuIds |-> IF read_cpufreq(i) # U64Zero THEN read_cpufreq(i)
                          ELSE @[i]]]

\* _odp_cpuinfo_parser: the model string of each CPU, and the maximum
\* frequency where the cpufreq file did not give one
_odp_cpuinfo_parser(si) ==
    [si EXCEPT !.model_str = [i \in CpuIds |-> "cpu model"],
               !.cpu_hz_max =
                   [i \in CpuIds |-> IF @[i] = U64Zero THEN env.cpuinfo.hz
                                     ELSE @[i]]]

\* _odp_dummy_cpuinfo: synthetic defaults
_odp_dummy_cpuinfo(si) ==
    [si EXCEPT !.model_str = [i \in CpuIds |-> "UNKNOWN"],
               !.cpu_hz_max = [i \in CpuIds |-> si.default_cpu_hz_max]]

\* system_hp(hugeinfo): the two fields (the directory still as the string
\* to duplicate) and the static default_size of get_hugepage_dir
system_hp ==
    LET r == get_hugepage_dir(U64Zero)
    IN  [default_huge_page_size |-> default_huge_page_size,
         dir |-> r.retval,
         default_size |-> r.default_size]

(***************************************************************************)
(* Public access functions.                                                *)
(***************************************************************************)
odp_cpu_hz_max_id(id) ==
    IF id >= 0 /\ id < CONFIG_NUM_CPU_IDS THEN system_info.cpu_hz_max[id]
    ELSE U64Zero

odp_cpu_model_str_id(id) ==
    IF id >= 0 /\ id < CONFIG_NUM_CPU_IDS THEN Ptr(system_info.model_str[id])
    ELSE NULL

odp_sys_huge_page_size == hugepage_info.default_huge_page_size

odp_sys_page_size == system_info.page_size

odp_sys_cache_line_size == system_info.cache_line_size

odp_cpu_count == system_info.cpu_count

(***************************************************************************)
(* System info initialisation and termination.                             *)
(***************************************************************************)
_odp_system_info_init ==
    /\ Len(heap) < MaxAllocs
    /\ LET si0 == [ZeroSystemInfo EXCEPT !.page_size = U64(ODP_PAGE_SIZE)]
           cfg == read_config_file(si0)
           si1 == read_max_freqs(cfg.si)
           si2 == IF env.cpuinfo.exists THEN _odp_cpuinfo_parser(si1)
                  ELSE _odp_dummy_cpuinfo(si1)
           cpu == systemcpu(si2)
           hp == system_hp
           dup == strdup(heap, hp.dir)
       IN  IF cfg.rc # 0
           THEN /\ system_info' = cfg.si
                /\ ret' = [op |-> "init", rc |-> -1]
                /\ UNCHANGED <<hugepage_info, default_size, heap>>
           ELSE IF cpu.rc # 0
           THEN /\ system_info' = cpu.si
                /\ ret' = [op |-> "init", rc |-> -1]
                /\ UNCHANGED <<hugepage_info, default_size, heap>>
           ELSE /\ system_info' = cpu.si
                /\ hugepage_info' =
                       [default_huge_page_size |-> hp.default_huge_page_size,
                        default_huge_page_dir |-> dup.ptr]
                /\ default_size' = hp.default_size
                /\ heap' = dup.heap
                /\ ret' = [op |-> "init", rc |-> 0]
    /\ UNCHANGED <<env, size>>

_odp_system_info_term ==
    /\ LET p == hugepage_info.default_huge_page_dir
       IN  /\ p # 0 => heap[p].frees < MaxFrees
           /\ heap' = free(heap, p)
    /\ ret' = [op |-> "term", rc |-> 0]
    /\ UNCHANGED <<env, system_info, hugepage_info, default_size, size>>

\* the systems the program is started on.  An input the program never
\* reads, because an earlier one already made initialisation fail, keeps
\* the value it has in BaseEnv; the huge page inputs vary on the systems
\* with the CPU id capacity and the cpufreq files of BaseEnv.
ConfigEnvs == {[BaseEnv EXCEPT !.config = c] : c \in Configs \ {GoodConfig}}

CpuEnvs ==
    { [BaseEnv EXCEPT !.nprocs_conf = x[1], !.cpufreq = x[2],
                      !.cpuinfo = x[3], !.num_cpus_installed = x[4]] :
        x \in NprocsConf \X CpufreqFiles \X CpuinfoFiles \X CpuCounts }

CacheEnvs ==
    { [e EXCEPT !.arch_sysfs = x[1], !.cache_file = x[2]] :
        e \in {c \in CpuEnvs : c.num_cpus_installed # 0},
        x \in ({TRUE} \X CacheFiles) \cup {<<FALSE, BaseEnv.cache_file>>} }

HugepageEnvs ==
    { [e EXCEPT !.ptr_size = x[1], !.meminfo = x[2], !.mounts = x[3]] :
        e \in {c \in CacheEnvs :
                  /\ CacheLineTable[c.arch_sysfs][c.cache_file]
                         = ODP_CACHE_LINE_SIZE
                  /\ c.nprocs_conf = BaseEnv.nprocs_conf
                  /\ c.cpufreq = BaseEnv.cpufreq},
        x \in PtrSizes \X MeminfoFiles \X MountTables }

Envs == ConfigEnvs \cup CpuEnvs \cup CacheEnvs \cup HugepageEnvs

Init ==
    /\ env \in Envs
    /\ system_info = ZeroSystemInfo
    /\ hugepage_info = ZeroHugepageInfo
    /\ default_size = U64Zero
    /\ heap = << >>
    /\ size = << >>
    /\ ret = [op |-> "none", rc |-> 0]

Next ==
    \/ _odp_system_info_init
    \/ _odp_system_info_term

Spec == Init /\ [][Next]_vars

(***************************************************************************)
(* get_hugepage_dir called on its own, for any requested size.             *)
(***************************************************************************)
call_get_hugepage_dir(hugepage_sz) ==
    /\ Len(heap) < MaxAllocs
    /\ LET r == get_hugepage_dir(hugepage_sz)
           dup == strdup(heap, r.retval)
       IN  /\ default_size' = r.default_size
           /\ heap' = dup.heap
           /\ ret' = [op |-> "get_hugepage_dir", arg |-> hugepage_sz,
                      result |-> dup.ptr]
    /\ UNCHANGED <<env, system_info, hugepage_info, size>>

DirEnvs ==
    { [BaseEnv EXCEPT !.ptr_size = x[1], !.meminfo = x[2], !.mounts = x[3]] :
        x \in PtrSizes \X MeminfoFiles \X MountTables }

DirInit ==
    /\ env \in DirEnvs
    /\ system_info = ZeroSystemInfo
    /\ hugepage_info = ZeroHugepageInfo
    /\ default_size = U64Zero
    /\ heap = << >>
    /\ size = << >>
    /\ ret = [op |-> "none", rc |-> 0]

DirNext == \E hugepage_sz \in RequestedSizes : call_get_hugepage_dir(hugepage_sz)

SpecDir == DirInit /\ [][DirNext]_vars

(***************************************************************************)
(* odp_sys_huge_page_size_all.                                             *)
(***************************************************************************)
pagesz_compare(pagesz1, pagesz2) == U64ToInt(U64Sub(pagesz1, pagesz2))

\* the readdir loop from entry i on: the destination, the number of
\* entries saved in it and the number of sizes found
\* sscanf(entry->d_name, "hugepages-%8lukB", &sz), evaluated once for each
\* entry name of the model
DirEntryTable == [n \in DirEntryNames |-> sscanf_lu8(n, "hugepages-")]

\* the readdir loop counting only the sizes it saves
RECURSIVE ReadHugepagesDir_saved(_, _, _, _, _, _, _)
ReadHugepagesDir_saved(entries, i, null, num, buf, saved, pagesz_num) ==
    IF i > Len(entries)
    THEN [size |-> buf, saved |-> saved, pagesz_num |-> pagesz_num]
    ELSE IF DirEntryTable[entries[i]].n = 1 /\ ~null /\ saved < num
    THEN ReadHugepagesDir_saved(entries, i + 1, null, num,
                                [buf EXCEPT ![saved + 1] =
                                    Times1024(DirEntryTable[entries[i]].sz)],
                                saved + 1, pagesz_num + 1)
    ELSE ReadHugepagesDir_saved(entries, i + 1, null, num, buf, saved,
                                pagesz_num)

\* the readdir loop from entry i on: the destination, the number of
\* entries saved in it and the number of sizes found
RECURSIVE ReadHugepagesDir(_, _, _, _, _, _, _)
ReadHugepagesDir(entries, i, null, num, buf, saved, pagesz_num) ==
    IF i > Len(entries)
    THEN [size |-> buf, saved |-> saved, pagesz_num |-> pagesz_num]
    ELSE IF DirEntryTable[entries[i]].n = 1
    THEN IF ~null /\ saved < num
         THEN ReadHugepagesDir(entries, i + 1, null, num,
                               [buf EXCEPT ![saved + 1] =
                                   Times1024(DirEntryTable[entries[i]].sz)],
                               saved + 1, pagesz_num + 1)
         ELSE ReadHugepagesDir(entries, i + 1, null, num, buf, saved,
                               pagesz_num + 1)
    ELSE ReadHugepagesDir(entries, i + 1, null, num, buf, saved, pagesz_num)

Perms(n) == {p \in [1..n -> 1..n] : \A i, j \in 1..n : i # j => p[i] # p[j]}

\* qsort(size, saved, sizeof(uint64_t), pagesz_compare) on the first nmemb
\* elements of buf: the arrays it may leave.  With a comparator that orders the
\* elements consistently these are the arrangements in that order; with
\* one that does not, the behaviour is undefined and any arrangement of
\* the elements may result.
qsort(buf, nmemb) ==
    LET Arrange(p) == [i \in 1..Len(buf) |-> IF i <= nmemb THEN buf[p[i]] ELSE buf[i]]
        all == {Arrange(p) : p \in Perms(nmemb)}
        ordered == {a \in all : \A i, j \in 1..nmemb : i < j => pagesz_compare(a[i], a[j]) <= 0}
    IN  IF ordered # {} THEN ordered ELSE all

odp_sys_huge_page_size_all(null, num) ==
    /\ LET dir == env.hugepages
           r == ReadHugepagesDir(dir.lines, 1, null, num, size, 0, 0)
       IN  IF ~dir.exists
           THEN /\ ret' = [op |-> "huge_page_size_all", rc |-> 0, null |-> null,
                           num |-> num, before |-> size]
                /\ size' = size
           ELSE /\ ret' = [op |-> "huge_page_size_all", rc |-> r.pagesz_num,
                           null |-> null, num |-> num, before |-> size]
                /\ IF ~null /\ r.saved > 1
                   THEN size' \in qsort(r.size, r.saved)
                   ELSE size' = r.size
    /\ UNCHANGED <<env, system_info, hugepage_info, default_size, heap>>

\* what the caller's array holds before the first call
Poison == <<57005, 48879, 57005, 48879>>

EnumInit ==
    /\ env \in {[BaseEnv EXCEPT !.hugepages = d] : d \in HugepagesDirs}
    /\ system_info = ZeroSystemInfo
    /\ hugepage_info = ZeroHugepageInfo
    /\ default_size = U64Zero
    /\ heap = << >>
    /\ size = [i \in 1..(MaxNum + 1) |-> Poison]
    /\ ret = [op |-> "none", rc |-> 0]

EnumNext ==
    \E null \in BOOLEAN, num \in -1..MaxNum : odp_sys_huge_page_size_all(null, num)

SpecEnum == EnumInit /\ [][EnumNext]_vars

(***************************************************************************)
(* What the properties say about the input texts, read off the texts       *)
(* themselves: the fields of a mount-table line are the runs of characters *)
(* between single spaces, the line without its newline.                    *)
(***************************************************************************)
Spaces(line) == {i \in 1..Len(line) : SubSeq(line, i, i) = " "}

NumFields(line) == Cardinality(Spaces(line)) + 1

\* the index of the k-th space of the line; 0 for k = 0 and the index of
\* the newline when there are fewer than k spaces
KthSpace(line, k) ==
    IF k = 0 THEN 0
    ELSE IF k > Cardinality(Spaces(line)) THEN Len(line)
    ELSE CHOOSE i \in Spaces(line) :
             Cardinality({j \in Spaces(line) : j < i}) = k - 1

Field(line, k) == SubSeq(line, KthSpace(line, k - 1) + 1, KthSpace(line, k) - 1)

Contains(str, sub) ==
    \E i \in 1..Len(str) : Sub(str, i, i + Len(sub) - 1) = sub

LineFacts ==
    [l \in MountLines |->
        [ short |-> NumFields(l) < 4,
          mountpt |-> IF NumFields(l) >= 2 THEN Field(l, 2) ELSE "",
          hugetlbfs |-> NumFields(l) >= 4 /\ Field(l, 3) = "hugetlbfs",
          pagesize_opt |-> NumFields(l) >= 4 /\ Contains(Field(l, 4), "pagesize=") ]]

\* the page size the option of a line states
ExplicitPageSize ==
    [l \in { "none /mnt/huge hugetlbfs rw,pagesize=2M 0 0\n",
             "nodev /mnt/huge1G hugetlbfs rw,relatime,pagesize=1024M 0 0\n" } |->
        IF l = "none /mnt/huge hugetlbfs rw,pagesize=2M 0 0\n" THEN TwoMB
        ELSE OneGB]

\* the string a pointer into the heap points to, NULL for the null pointer
StrAt(p) == IF p = 0 THEN NULL ELSE Ptr(heap[p].str)

\* the default huge page size the system states, and the size a request
\* stands for (0 stands for the default)
DiscoveredDefault == MeminfoTable[env.meminfo]
Requested(arg) == IF arg = U64Zero THEN DiscoveredDefault ELSE arg

AfterDirCall == ret.op = "get_hugepage_dir" /\ env.mounts.exists

(***************************************************************************)
(* C1.  A hugetlbfs line with a pagesize=<value> option is the match of    *)
(* get_hugepage_dir(requested) exactly when <value>, read with its K/M/G   *)
(* suffix, equals the requested size: on a table of that one line the      *)
(* result is its mount point if the sizes are equal and NULL if not.  The  *)
(* line "none /mnt/huge hugetlbfs rw,pagesize=2M 0 0" with requested size  *)
(* 2097152 gives "/mnt/huge".                                              *)
(***************************************************************************)
C1_ExplicitPageSizeMatches ==
    (AfterDirCall /\ ret.arg # U64Zero /\ Len(env.mounts.lines) = 1
       /\ env.mounts.lines[1] \in DOMAIN ExplicitPageSize)
    => StrAt(ret.result) =
           IF ExplicitPageSize[env.mounts.lines[1]] = ret.arg
           THEN Ptr(LineFacts[env.mounts.lines[1]].mountpt)
           ELSE NULL

(***************************************************************************)
(* C2.  After _odp_system_info_init has returned, default_huge_page_dir is *)
(* NULL whenever default_huge_page_size is 0 (looked at on the systems     *)
(* whose census counted at least one CPU).                                 *)
(***************************************************************************)
CensusCounted == env.num_cpus_installed >= 1

C2_NoDirWithoutSize ==
    (ret.op = "init" /\ CensusCounted
       /\ hugepage_info.default_huge_page_size = U64Zero)
    => hugepage_info.default_huge_page_dir = 0

(***************************************************************************)
(* C3.  Over any sequence of initialisations and terminations no string    *)
(* is released twice, and every string not yet released is still the one   *)
(* default_huge_page_dir points to (none is leaked); looked at on the      *)
(* systems whose census counted at least one CPU.                          *)
(***************************************************************************)
C3_DirReleasedExactlyOnce ==
    CensusCounted =>
        \A p \in 1..Len(heap) :
            /\ heap[p].frees <= 1
            /\ heap[p].frees = 0 => hugepage_info.default_huge_page_dir = p

(***************************************************************************)
(* C4.  Whenever _odp_system_info_init returns success, the cache line     *)
(* size the accessor reports is ODP_CACHE_LINE_SIZE; and whenever the      *)
(* probe returns 0 or another value than the constant, initialisation      *)
(* returns an error.                                                       *)
(***************************************************************************)
C4_CacheLineSize ==
    ret.op = "init" =>
        /\ ret.rc = 0 => odp_sys_cache_line_size = ODP_CACHE_LINE_SIZE
        /\ CacheLineTable[env.arch_sysfs][env.cache_file] # ODP_CACHE_LINE_SIZE
               => ret.rc = -1

C4_Witness ==
    /\ ret.op = "init" /\ ret.rc = 0
    /\ env.arch_sysfs
    /\ odp_sys_cache_line_size = ODP_CACHE_LINE_SIZE

(***************************************************************************)
(* C5.  After odp_sys_huge_page_size_all has stored more than one entry,   *)
(* the entries stored are in ascending numeric order.                      *)
(***************************************************************************)
EntriesStored == IF ret.num < ret.rc THEN ret.num ELSE ret.rc

C5_SortedAscending ==
    (ret.op = "huge_page_size_all" /\ ~ret.null /\ EntriesStored > 1)
    => \A i, j \in 1..EntriesStored : i < j => ~U64Less(size[j], size[i])

(***************************************************************************)
(* C6.  odp_sys_huge_page_size_all returns the number of directory entries *)
(* whose name has the huge-page pattern, whatever num is; it changes no    *)
(* element of the destination behind the first num; and with num = 0 or a  *)
(* NULL destination it leaves the destination as it was.                   *)
(***************************************************************************)
HasPattern(name) ==
    /\ Sub(name, 1, 10) = "hugepages-"
    /\ SubSeq(name, 11, 11) \in {"0", "1", "2", "3", "4", "5", "6", "7", "8", "9"}

PatternCount ==
    Cardinality({k \in 1..Len(env.hugepages.lines) :
                    HasPattern(env.hugepages.lines[k])})

C6_TrueCountAndCapacity ==
    ret.op = "huge_page_size_all" =>
        /\ ret.rc = PatternCount
        /\ \A k \in 1..Len(size) : k > ret.num => size[k] = ret.before[k]
        /\ (ret.null \/ ret.num = 0) => size = ret.before

C6_Witness ==
    /\ ret.op = "huge_page_size_all"
    /\ ~ret.null /\ ret.num = 1 /\ ret.rc = 2
    /\ size[1] # ret.before[1]

(***************************************************************************)
(* C7.  When the scan of the mount table reaches a line with fewer than    *)
(* four fields (no hugetlbfs line stands before it), the result is "not    *)
(* found" whatever lines follow, and initialisation still succeeds.        *)
(***************************************************************************)
Fatal ==
    \/ \E k \in ConfigKeys : env.config[k] = << >>
    \/ env.num_cpus_installed = 0
    \/ CacheLineTable[env.arch_sysfs][env.cache_file] # ODP_CACHE_LINE_SIZE

ReachesShortLine ==
    /\ env.mounts.exists
    /\ \E k \in 1..Len(env.mounts.lines) :
          /\ LineFacts[env.mounts.lines[k]].short
          /\ \A j \in 1..(k - 1) : ~LineFacts[env.mounts.lines[j]].hugetlbfs

C7_ShortLineEndsScan ==
    (ret.op = "init" /\ ~Fatal /\ ReachesShortLine)
    => ret.rc = 0 /\ hugepage_info.default_huge_page_dir = 0

C7_Witness ==
    /\ ret.op = "init" /\ ret.rc = 0
    /\ env.mounts.exists /\ Len(env.mounts.lines) = 2
    /\ LineFacts[env.mounts.lines[1]].short
    /\ LineFacts[env.mounts.lines[2]].hugetlbfs
    /\ ~LineFacts[env.mounts.lines[2]].pagesize_opt
    /\ hugepage_info.default_huge_page_dir = 0

(***************************************************************************)
(* C8.  As claimed: initialisation returns an error exactly when a fatal   *)
(* condition holds, and each soft condition leaves its accessor returning  *)
(* 0 or absent -- the maximum frequency of a CPU without cpufreq file, the *)
(* model string when /proc/cpuinfo is unreadable, the default huge page    *)
(* size when none is found, the directory when no mount is found, and the  *)
(* CPU ids behind the compiled capacity (the accessors looked at on the    *)
(* systems whose census counted at least one CPU).                         *)
(***************************************************************************)
NoHugeMount ==
    \/ ~env.mounts.exists
    \/ \A k \in 1..Len(env.mounts.lines) :
           ~LineFacts[env.mounts.lines[k]].hugetlbfs

NoHugepagesizeLine ==
    \/ ~env.meminfo.exists
    \/ \A k \in 1..Len(env.meminfo.lines) :
           Sub(env.meminfo.lines[k], 1, 13) # "Hugepagesize:"

HugepageSentinels ==
    /\ NoHugepagesizeLine => odp_sys_huge_page_size = U64Zero
    /\ NoHugeMount => hugepage_info.default_huge_page_dir = 0
    /\ odp_cpu_hz_max_id(CONFIG_NUM_CPU_IDS) = U64Zero
    /\ odp_cpu_model_str_id(CONFIG_NUM_CPU_IDS) = NULL

LinesBehind(k) == SubSeq(env.mounts.lines, k + 1, Len(env.mounts.lines))

\* the result of the scan of the one line k
OnItsOwn(k) ==
    ScanMounts(<<env.mounts.lines[k]>>, 1, Requested(ret.arg), DiscoveredDefault)

Scanned(k) ==
    \A j \in 1..(k - 1) :
        ~LineFacts[env.mounts.lines[j]].short /\ OnItsOwn(j) = NULL

C9_DefaultSizeMount ==
    AfterDirCall =>
        /\ \A k \in 1..Len(env.mounts.lines) :
              ( /\ \A j \in 1..(k - 1) :
                      /\ ~LineFacts[env.mounts.lines[j]].short
                      /\ ~LineFacts[env.mounts.lines[j]].hugetlbfs
                /\ LineFacts[env.mounts.lines[k]].hugetlbfs
                /\ ~LineFacts[env.mounts.lines[k]].pagesize_opt )
              => StrAt(ret.result) =
                     IF Requested(ret.arg) = DiscoveredDefault
                     THEN Ptr(LineFacts[env.mounts.lines[k]].mountpt)
                     ELSE ScanMounts(LinesBehind(k), 1, Requested(ret.arg),
                                     DiscoveredDefault)
        /\ \A k \in 1..Len(env.mounts.lines) :
              (Scanned(k) /\ OnItsOwn(k) # NULL)
              => StrAt(ret.result) = Ptr(LineFacts[env.mounts.lines[k]].mountpt)
        /\ (\A k \in 1..Len(env.mounts.lines) : Scanned(k) => OnItsOwn(k) = NULL)
              => ret.result = 0

C9_Witness ==
    /\ AfterDirCall
    /\ Len(env.mounts.lines) = 2
    /\ LineFacts[env.mounts.lines[1]].hugetlbfs
    /\ ~LineFacts[env.mounts.lines[1]].pagesize_opt
    /\ DiscoveredDefault = TwoMB
    /\ ret.arg = TwoMB
    /\ StrAt(ret.result) = Ptr("/dev/hugepages")

(***************************************************************************)
(* C10.  Whenever _odp_system_info_init returns success, odp_cpu_count()   *)
(* is at least 1: a census result of 0 or below makes initialisation fail. *)
(***************************************************************************)
C10_CpuCountPositive ==
    (ret.op = "init" /\ ret.rc = 0) => odp_cpu_count >= 1

====
